---- MODULE Spec2Model ----
(***************************************************************************)
(* The LendingProtocol contract: the position ledger (userPositions), its  *)
(* four caller-scoped operations (depositCollateral, borrow, repay,        *)
(* withdrawCollateral), the read-only projection getUserData, the          *)
(* non-compounding weekly accrual _updateInterest, and the two owner       *)
(* operations (fundContract, withdrawExcess), against two ERC20 tokens.    *)
(*                                                                         *)
(* Each contract function is an operator from the world state before the   *)
(* call to an execution record [status, world]: world is the state at the  *)
(* point where execution stopped, status is "ok" or the failed require.    *)
(* A transaction keeps the world of an execution that ended "ok" and       *)
(* discards it otherwise (a failed require reverts the call).              *)
(*                                                                         *)
(* Amounts are uint256 in the contract; every amount of the model is far   *)
(* below 2^256, so no checked addition or multiplication overflows, and    *)
(* block.timestamp never precedes a stored lastInterestUpdate.             *)
(***************************************************************************)
EXTENDS Integers, Sequences, FiniteSets, TLC

VARIABLES
    userPositions,    \* mapping(address => UserPosition)
    collateralToken,  \* cUSD: [balanceOf, allowance (to the protocol)]
    loanToken,        \* dDAI: [balanceOf, allowance (to the protocol)]
    now,              \* block.timestamp, in seconds
    last,             \* the last transaction: call, outcome, state before it
    phase,            \* history, per identity: "fresh", "drawn" (one borrow since the
                      \* principal was last 0), "redrawn" (several), "repaid"
    since,            \* history, per identity: block.timestamp of the first of those
                      \* borrows (0 when fresh or repaid)
    reentrancy,       \* ReentrancyGuard's status: ENTERED while one of the four
                      \* nonReentrant functions executes
    frame,            \* the nonReentrant call that is executing, stopped in its token call
    book,             \* history: the owner's net funding of the loan reserve, and the
                      \* interest the LoanRepaid events have reported
    userPosition,     \* the web client's state: the position it last loaded
    script            \* the state of a running script (funding, deployment)

vars == <<userPositions, collateralToken, loanToken, now, last, phase, since,
          reentrancy, frame, book, userPosition, script>>

----------------------------------------------------------------------------
(* Constants of the contract *)

COLLATERALIZATION_RATIO == 150
INTEREST_RATE == 5
PRECISION == 100
WEEK == 7 * 24 * 60 * 60
DAY == 24 * 60 * 60

(* Identities and accounts *)

Owner == "owner"
Identities == {"owner", "user1"}
Protocol == "protocol"
Accounts == Identities \cup {Protocol}

(* Outcomes of a call *)

Ok == "ok"
InvalidAmount == "InvalidAmount"
NoCollateral == "NoCollateral"
NoActiveLoan == "NoActiveLoan"
ExceedsCapacity == "ExceedsCapacity"
InsufficientReserve == "InsufficientReserve"
ActiveDebt == "ActiveDebt"
TransferFailed == "TransferFailed"
Unauthorized == "Unauthorized"
ReentrantCall == "ReentrancyGuardReentrantCall"

(* ReentrancyGuard *)

NOT_ENTERED == "NOT_ENTERED"
ENTERED == "ENTERED"
NoFrame == [op |-> "none"]

(* Outside the contract: nothing booked, no client connected, no script running *)

NoBook == [funding |-> 0, interest |-> 0]
NotLoaded == [collateral |-> 0, debt |-> 0, interest |-> 0]
NoScript == [pc |-> "none"]

(* Bounds of the model and the inputs the environment draws from *)

MaxDays == 14
StartTime == 1
TickDays == {7, 10}
DepositAmounts == {0, 1000, 1500}
BorrowAmounts == {0, 667, 1000}
FundAmounts == {2000}
\* type(uint256).max, the unlimited allowance; 2^30 stands for 2^256 - 1, which is
\* beyond the integers of the checker and above every amount of the model.
MaxUint == 2 ^ 30
ApproveAmounts == {0, MaxUint}
InitialCollateral == [a \in Accounts |-> CASE a = Owner -> 1500 [] a = Protocol -> 0 [] OTHER -> 2500]
InitialLoan == [a \in Accounts |-> CASE a = Owner -> 2000 [] a = Protocol -> 0 [] OTHER -> 50]
\* The owner approved the protocol for both tokens at deployment; the other
\* identities start with no allowance and approve or revoke at will.
InitialAllowance == [u \in Identities |-> IF u = Owner THEN MaxUint ELSE 0]
Approvers == Identities \ {Owner}

----------------------------------------------------------------------------
(* ERC20 token, as the contract uses it: balances, and the allowance each  *)
(* holder has granted to the protocol.                                     *)

ZeroPosition ==
    [collateralAmount |-> 0, loanAmount |-> 0, lastInterestUpdate |-> 0, accumulatedInterest |-> 0]

balanceOf(token, account) == token.balanceOf[account]

approve(token, holder, amount) ==
    [token EXCEPT !.allowance[holder] = amount]

\* transfer(to, amount) called by `from`: fails when the balance is short.
transfer(token, from, to, amount) ==
    IF token.balanceOf[from] < amount
    THEN [ok |-> FALSE, token |-> token]
    ELSE [ok |-> TRUE,
          token |-> [token EXCEPT !.balanceOf =
                        [a \in Accounts |->
                            token.balanceOf[a]
                            - (IF a = from THEN amount ELSE 0)
                            + (IF a = to THEN amount ELSE 0)]]]

\* transferFrom(from, protocol, amount) called by the protocol: fails when the
\* allowance or the balance is short; an unlimited allowance is not consumed.
transferFrom(token, from, to, amount) ==
    IF token.allowance[from] < amount \/ token.balanceOf[from] < amount
    THEN [ok |-> FALSE, token |-> token]
    ELSE [ok |-> TRUE,
          token |-> [balanceOf |->
                        [a \in Accounts |->
                            token.balanceOf[a]
                            - (IF a = from THEN amount ELSE 0)
                            + (IF a = to THEN amount ELSE 0)],
                     allowance |->
                        [token.allowance EXCEPT ![from] =
                            IF @ = MaxUint THEN @ ELSE @ - amount]]]

----------------------------------------------------------------------------
(* The world state a call reads and writes *)

World == [userPositions |-> userPositions,
          collateralToken |-> collateralToken,
          loanToken |-> loanToken]

Stop(status, w) == [status |-> status, world |-> w]

(* _updateInterest: folds the interest of the full weeks elapsed since      *)
(* lastInterestUpdate into accumulatedInterest                              *)

newInterestCompounding(position, weeksElapsed) ==
    ((position.loanAmount + position.accumulatedInterest) * INTEREST_RATE * weeksElapsed)
        \div PRECISION

newInterest(position, weeksElapsed) ==
    (position.loanAmount * INTEREST_RATE * weeksElapsed) \div PRECISION

weeksElapsedRoundedUp(position, ts) ==
    (ts - position.lastInterestUpdate + WEEK - 1) \div WEEK

weeksElapsedDaysOfWeek(position, ts) ==
    ((ts - position.lastInterestUpdate) % WEEK) \div DAY

weeksElapsed(position, ts) ==
    (ts - position.lastInterestUpdate) \div WEEK

updateInterest(position, ts) ==
    IF position.loanAmount > 0 /\ position.lastInterestUpdate > 0
    THEN IF weeksElapsed(position, ts) > 0
         THEN [position EXCEPT
                  !.accumulatedInterest = @ + newInterest(position, weeksElapsed(position, ts)),
                  !.lastInterestUpdate = ts]
         ELSE position
    ELSE position

(* getUserData: <<collateral, debt, interest>> *)

getUserDataStored(position, ts) ==
    [collateral |-> position.collateralAmount,
     debt |-> position.loanAmount,
     interest |-> position.accumulatedInterest]

getUserData(position, ts) ==
    LET interest ==
            IF position.loanAmount > 0 /\ position.lastInterestUpdate > 0
            THEN IF weeksElapsed(position, ts) > 0
                 THEN position.accumulatedInterest
                      + newInterest(position, weeksElapsed(position, ts))
                 ELSE position.accumulatedInterest
            ELSE position.accumulatedInterest
    IN [collateral |-> position.collateralAmount,
        debt |-> position.loanAmount,
        interest |-> interest]

getUserDataViewWriting(w, user, ts) ==
    Stop(Ok, [w EXCEPT !.userPositions[user] = updateInterest(@, ts)])

\* The state getUserData leaves: it works on `UserPosition memory position`, a copy
\* of the stored record, and on its return variables, and writes nothing back.
getUserDataView(w, user, ts) ==
    Stop(Ok, w)

currentDebt(position) ==
    position.loanAmount + position.accumulatedInterest

maxBorrowableInverted(position) ==
    (position.collateralAmount * COLLATERALIZATION_RATIO) \div PRECISION

maxBorrowable(position) ==
    (position.collateralAmount * PRECISION) \div COLLATERALIZATION_RATIO

(* depositCollateral(amount) *)

depositCollateralUnchecked(w, sender, amount) ==
    IF ~(amount > 0) THEN Stop(InvalidAmount, w)
    ELSE
    LET t == transferFrom(w.collateralToken, sender, Protocol, amount)
    IN Stop(Ok, [w EXCEPT
                !.collateralToken = t.token,
                !.userPositions[sender].collateralAmount = @ + amount])

depositCollateralToOwner(w, sender, amount) ==
    IF ~(amount > 0) THEN Stop(InvalidAmount, w)
    ELSE
    LET t == transferFrom(w.collateralToken, sender, Protocol, amount)
    IN IF ~t.ok THEN Stop(TransferFailed, w)
       ELSE Stop(Ok, [w EXCEPT
                !.collateralToken = t.token,
                !.userPositions[Owner].collateralAmount = @ + amount])

depositCollateralOverwrite(w, sender, amount) ==
    IF ~(amount > 0) THEN Stop(InvalidAmount, w)
    ELSE
    LET t == transferFrom(w.collateralToken, sender, Protocol, amount)
    IN IF ~t.ok THEN Stop(TransferFailed, w)
       ELSE Stop(Ok, [w EXCEPT
                !.collateralToken = t.token,
                !.userPositions[sender].collateralAmount = amount])

depositCollateral(w, sender, amount) ==
    IF ~(amount > 0) THEN Stop(InvalidAmount, w)
    ELSE
    LET t == transferFrom(w.collateralToken, sender, Protocol, amount)
    IN IF ~t.ok THEN Stop(TransferFailed, w)
       ELSE Stop(Ok, [w EXCEPT
                !.collateralToken = t.token,
                !.userPositions[sender].collateralAmount = @ + amount])

(* borrow(amount) *)

withinCapacityStrict(position, amount) ==
    currentDebt(position) + amount < maxBorrowable(position)

withinCapacity(position, amount) ==
    currentDebt(position) + amount <= maxBorrowable(position)

borrowChecksReserveFirst(position, amount, reserve) ==
    IF ~(reserve >= amount) THEN InsufficientReserve
    ELSE IF ~withinCapacity(position, amount) THEN ExceedsCapacity
    ELSE Ok

\* The two requires of borrow that follow the accrual, in their order.
borrowChecks(position, amount, reserve) ==
    IF ~withinCapacity(position, amount) THEN ExceedsCapacity
    ELSE IF ~(reserve >= amount) THEN InsufficientReserve
    ELSE Ok

borrowKeepsClock(w, sender, amount, ts) ==
    IF ~(amount > 0) THEN Stop(InvalidAmount, w)
    ELSE IF ~(w.userPositions[sender].collateralAmount > 0) THEN Stop(NoCollateral, w)
    ELSE
    LET w1 == [w EXCEPT !.userPositions[sender] = updateInterest(@, ts)]
        position == w1.userPositions[sender]
        failed == borrowChecks(position, amount, balanceOf(w1.loanToken, Protocol))
    IN IF failed # Ok THEN Stop(failed, w1)
       ELSE
       LET w2 == [w1 EXCEPT !.userPositions[sender].loanAmount = @ + amount]
           t == transfer(w2.loanToken, Protocol, sender, amount)
       IN IF ~t.ok THEN Stop(TransferFailed, w2)
          ELSE Stop(Ok, [w2 EXCEPT !.loanToken = t.token])

borrow(w, sender, amount, ts) ==
    IF ~(amount > 0) THEN Stop(InvalidAmount, w)
    ELSE IF ~(w.userPositions[sender].collateralAmount > 0) THEN Stop(NoCollateral, w)
    ELSE
    LET w1 == [w EXCEPT !.userPositions[sender] = updateInterest(@, ts)]
        position == w1.userPositions[sender]
        failed == borrowChecks(position, amount, balanceOf(w1.loanToken, Protocol))
    IN IF failed # Ok THEN Stop(failed, w1)
       ELSE
       LET w2 == [w1 EXCEPT !.userPositions[sender] =
                      [@ EXCEPT !.loanAmount = @ + amount, !.lastInterestUpdate = ts]]
           t == transfer(w2.loanToken, Protocol, sender, amount)
       IN IF ~t.ok THEN Stop(TransferFailed, w2)
          ELSE Stop(Ok, [w2 EXCEPT !.loanToken = t.token])

(* repay() *)

totalDebtPrincipalOnly(position) ==
    position.loanAmount

totalDebt(position) ==
    position.loanAmount + position.accumulatedInterest

resetLoanKeepInterest(position) ==
    [position EXCEPT !.loanAmount = 0, !.lastInterestUpdate = 0]

resetLoan(position) ==
    [position EXCEPT !.loanAmount = 0,
                     !.accumulatedInterest = 0,
                     !.lastInterestUpdate = 0]

repay(w, sender, ts) ==
    IF ~(w.userPositions[sender].loanAmount > 0) THEN Stop(NoActiveLoan, w)
    ELSE
    LET w1 == [w EXCEPT !.userPositions[sender] = updateInterest(@, ts)]
        position == w1.userPositions[sender]
        t == transferFrom(w1.loanToken, sender, Protocol, totalDebt(position))
    IN IF ~t.ok THEN Stop(TransferFailed, w1)
       ELSE Stop(Ok, [w1 EXCEPT
                !.loanToken = t.token,
                !.userPositions[sender] = resetLoan(@)])

(* withdrawCollateral() *)

debtFreeInterestOnly(position) ==
    position.accumulatedInterest = 0

debtFree(position) ==
    currentDebt(position) = 0

withdrawCollateralNoGuard(w, sender, ts) ==
    LET w1 == IF w.userPositions[sender].loanAmount > 0
              THEN [w EXCEPT !.userPositions[sender] = updateInterest(@, ts)]
              ELSE w
        position == w1.userPositions[sender]
    IN IF ~debtFree(position) THEN Stop(ActiveDebt, w1)
       ELSE
       LET w2 == [w1 EXCEPT !.userPositions[sender].collateralAmount = 0]
           t == transfer(w2.collateralToken, Protocol, sender, position.collateralAmount)
       IN IF ~t.ok THEN Stop(TransferFailed, w2)
          ELSE Stop(Ok, [w2 EXCEPT !.collateralToken = t.token])

withdrawCollateralKeepBalance(w, sender, ts) ==
    IF ~(w.userPositions[sender].collateralAmount > 0) THEN Stop(NoCollateral, w)
    ELSE
    LET w1 == IF w.userPositions[sender].loanAmount > 0
              THEN [w EXCEPT !.userPositions[sender] = updateInterest(@, ts)]
              ELSE w
        position == w1.userPositions[sender]
    IN IF ~debtFree(position) THEN Stop(ActiveDebt, w1)
       ELSE
       LET t == transfer(w1.collateralToken, Protocol, sender, position.collateralAmount)
       IN IF ~t.ok THEN Stop(TransferFailed, w1)
          ELSE Stop(Ok, [w1 EXCEPT !.collateralToken = t.token])

withdrawCollateral(w, sender, ts) ==
    IF ~(w.userPositions[sender].collateralAmount > 0) THEN Stop(NoCollateral, w)
    ELSE
    LET w1 == IF w.userPositions[sender].loanAmount > 0
              THEN [w EXCEPT !.userPositions[sender] = updateInterest(@, ts)]
              ELSE w
        position == w1.userPositions[sender]
    IN IF ~debtFree(position) THEN Stop(ActiveDebt, w1)
       ELSE
       LET w2 == [w1 EXCEPT !.userPositions[sender].collateralAmount = 0]
           t == transfer(w2.collateralToken, Protocol, sender, position.collateralAmount)
       IN IF ~t.ok THEN Stop(TransferFailed, w2)
          ELSE Stop(Ok, [w2 EXCEPT !.collateralToken = t.token])

(* fundContract(amount), withdrawExcess(amount): onlyOwner *)

fundContractCreditsPosition(w, sender, amount) ==
    IF sender # Owner THEN Stop(Unauthorized, w)
    ELSE
    LET t == transferFrom(w.loanToken, sender, Protocol, amount)
    IN IF ~t.ok THEN Stop(TransferFailed, w)
       ELSE Stop(Ok, [w EXCEPT !.loanToken = t.token,
                               !.userPositions[sender].collateralAmount = @ + amount])

fundContract(w, sender, amount) ==
    IF sender # Owner THEN Stop(Unauthorized, w)
    ELSE
    LET t == transferFrom(w.loanToken, sender, Protocol, amount)
    IN IF ~t.ok THEN Stop(TransferFailed, w)
       ELSE Stop(Ok, [w EXCEPT !.loanToken = t.token])

withdrawExcessUnchecked(w, sender, amount) ==
    IF sender # Owner THEN Stop(Unauthorized, w)
    ELSE
    LET t == transfer(w.loanToken, Protocol, sender, amount)
    IN Stop(Ok, [w EXCEPT !.loanToken = t.token])

withdrawExcessAnyone(w, sender, amount) ==
    LET t == transfer(w.loanToken, Protocol, sender, amount)
    IN IF ~t.ok THEN Stop(TransferFailed, w)
       ELSE Stop(Ok, [w EXCEPT !.loanToken = t.token])

withdrawExcess(w, sender, amount) ==
    IF sender # Owner THEN Stop(Unauthorized, w)
    ELSE
    LET t == transfer(w.loanToken, Protocol, sender, amount)
    IN IF ~t.ok THEN Stop(TransferFailed, w)
       ELSE Stop(Ok, [w EXCEPT !.loanToken = t.token])

----------------------------------------------------------------------------
(* Events: what a call leaves in the transaction's log.  Every emit stands   *)
(* after the last require of its function, so a call that reverts logs       *)
(* nothing.                                                                  *)

NoEvents == << >>

depositCollateralEvents(w, sender, amount) ==
    IF depositCollateral(w, sender, amount).status # Ok THEN NoEvents
    ELSE <<[name |-> "CollateralDeposited", user |-> sender, amount |-> amount]>>

borrowEvents(w, sender, amount, ts) ==
    IF borrow(w, sender, amount, ts).status # Ok THEN NoEvents
    ELSE <<[name |-> "LoanBorrowed", user |-> sender, amount |-> amount]>>

repayEventsAfterReset(w, sender, ts) ==
    LET position == resetLoan(updateInterest(w.userPositions[sender], ts))
    IN IF repay(w, sender, ts).status # Ok THEN NoEvents
       ELSE <<[name |-> "LoanRepaid", user |-> sender,
               amount |-> position.loanAmount,
               interest |-> position.accumulatedInterest]>>

\* LoanRepaid is emitted after _updateInterest and before the position is reset.
repayEvents(w, sender, ts) ==
    LET position == updateInterest(w.userPositions[sender], ts)
    IN IF repay(w, sender, ts).status # Ok THEN NoEvents
       ELSE <<[name |-> "LoanRepaid", user |-> sender,
               amount |-> position.loanAmount,
               interest |-> position.accumulatedInterest]>>

\* CollateralWithdrawn carries the local copy taken before collateralAmount is zeroed.
withdrawCollateralEvents(w, sender, ts) ==
    IF withdrawCollateral(w, sender, ts).status # Ok THEN NoEvents
    ELSE <<[name |-> "CollateralWithdrawn", user |-> sender,
            amount |-> w.userPositions[sender].collateralAmount]>>

Events(op, w, sender, amount, ts) ==
    CASE op = "depositCollateral" -> depositCollateralEvents(w, sender, amount)
      [] op = "borrow" -> borrowEvents(w, sender, amount, ts)
      [] op = "repay" -> repayEvents(w, sender, ts)
      [] op = "withdrawCollateral" -> withdrawCollateralEvents(w, sender, ts)
      [] OTHER -> NoEvents

\* The books after a call: funding and withdrawExcess move the net funding by their
\* argument, a repay adds the interest its LoanRepaid event reports.
Posted(b, op, w, sender, amount, ts, status) ==
    IF status # Ok THEN b
    ELSE CASE op = "fundContract" -> [b EXCEPT !.funding = @ + amount]
           [] op = "withdrawExcess" -> [b EXCEPT !.funding = @ - amount]
           [] op = "repay" -> [b EXCEPT !.interest = @ + repayEvents(w, sender, ts)[1].interest]
           [] OTHER -> b

----------------------------------------------------------------------------
(* Transactions *)

SettleKeepingPartial(before, exec) ==
    exec.world

\* The world a transaction leaves: the execution's world when it ended "ok",
\* the world before the call when a require failed.
Settle(before, exec) ==
    IF exec.status = Ok THEN exec.world ELSE before

Call(op, who, amount, status, ret) ==
    [op |-> op, who |-> who, amount |-> amount, status |-> status,
     ret |-> ret, before |-> World]

NoRet == [collateral |-> 0, debt |-> 0, interest |-> 0]

\* Steps that are no call of the protocol: `last` holds no call after them.
Idle(w) == [Call("none", Owner, 0, Ok, NoRet) EXCEPT !.before = w]

Transact(op, who, amount, exec) ==
    LET after == Settle(World, exec)
    IN /\ userPositions' = after.userPositions
       /\ collateralToken' = after.collateralToken
       /\ loanToken' = after.loanToken
       /\ last' = Call(op, who, amount, exec.status, NoRet)
       /\ book' = Posted(book, op, World, who, amount, now, exec.status)
       /\ UNCHANGED <<now, reentrancy, frame, userPosition, script>>

Init ==
    /\ userPositions = [u \in Identities |-> ZeroPosition]
    /\ collateralToken = [balanceOf |-> InitialCollateral, allowance |-> InitialAllowance]
    /\ loanToken = [balanceOf |-> InitialLoan, allowance |-> InitialAllowance]
    /\ now = StartTime
    /\ last = Idle(World)
    /\ phase = [u \in Identities |-> "fresh"]
    /\ since = [u \in Identities |-> 0]
    /\ reentrancy = NOT_ENTERED
    /\ frame = NoFrame
    /\ book = NoBook
    /\ userPosition = NotLoaded
    /\ script = NoScript

DepositCollateral(u, amount) ==
    /\ Transact("depositCollateral", u, amount, depositCollateral(World, u, amount))
    /\ UNCHANGED <<phase, since>>

Borrow(u, amount) ==
    LET exec == borrow(World, u, amount, now)
    IN /\ Transact("borrow", u, amount, exec)
       /\ phase' = IF exec.status = Ok
                   THEN [phase EXCEPT ![u] = IF @ \in {"fresh", "repaid"} THEN "drawn" ELSE "redrawn"]
                   ELSE phase
       /\ since' = IF exec.status = Ok /\ phase[u] \in {"fresh", "repaid"}
                   THEN [since EXCEPT ![u] = now]
                   ELSE since

Repay(u) ==
    LET exec == repay(World, u, now)
    IN /\ Transact("repay", u, 0, exec)
       /\ phase' = IF exec.status = Ok THEN [phase EXCEPT ![u] = "repaid"] ELSE phase
       /\ since' = IF exec.status = Ok THEN [since EXCEPT ![u] = 0] ELSE since

WithdrawCollateral(u) ==
    /\ Transact("withdrawCollateral", u, 0, withdrawCollateral(World, u, now))
    /\ UNCHANGED <<phase, since>>

FundContract(u, amount) ==
    /\ Transact("fundContract", u, amount, fundContract(World, u, amount))
    /\ UNCHANGED <<phase, since>>

WithdrawExcess(u, amount) ==
    /\ Transact("withdrawExcess", u, amount, withdrawExcess(World, u, amount))
    /\ UNCHANGED <<phase, since>>

\* getUserData(user), a view call by anyone: `last.who` is the identity asked about.
GetUserData(u) ==
    LET after == Settle(World, getUserDataView(World, u, now))
    IN /\ userPositions' = after.userPositions
       /\ collateralToken' = after.collateralToken
       /\ loanToken' = after.loanToken
       /\ last' = Call("getUserData", u, 0, Ok, getUserData(userPositions[u], now))
       /\ UNCHANGED <<now, phase, since, reentrancy, frame, book, userPosition, script>>

ApproveCollateral(u, amount) ==
    /\ collateralToken' = approve(collateralToken, u, amount)
    /\ last' = Idle([World EXCEPT !.collateralToken = collateralToken'])
    /\ UNCHANGED <<userPositions, loanToken, now, phase, since, reentrancy, frame,
                   book, userPosition, script>>

ApproveLoan(u, amount) ==
    /\ loanToken' = approve(loanToken, u, amount)
    /\ last' = Idle([World EXCEPT !.loanToken = loanToken'])
    /\ UNCHANGED <<userPositions, collateralToken, now, phase, since, reentrancy, frame,
                   book, userPosition, script>>

\* The clock: block.timestamp advances between transactions.
Tick(days) ==
    /\ now + days * DAY <= StartTime + MaxDays * DAY
    /\ now' = now + days * DAY
    /\ last' = Idle(World)
    /\ UNCHANGED <<userPositions, collateralToken, loanToken, phase, since,
                   reentrancy, frame, book, userPosition, script>>

Next ==
    \/ \E u \in Identities, amount \in DepositAmounts : DepositCollateral(u, amount)
    \/ \E u \in Identities, amount \in BorrowAmounts : Borrow(u, amount)
    \/ \E u \in Identities : Repay(u)
    \/ \E u \in Identities : WithdrawCollateral(u)
    \/ \E u \in Identities, amount \in FundAmounts : FundContract(u, amount)
    \/ \E u \in Identities, amount \in FundAmounts : WithdrawExcess(u, amount)
    \/ \E u \in Identities : GetUserData(u)
    \/ \E u \in Approvers, amount \in ApproveAmounts : ApproveCollateral(u, amount)
    \/ \E u \in Approvers, amount \in ApproveAmounts : ApproveLoan(u, amount)
    \/ \E days \in TickDays : Tick(days)

Spec == Init /\ [][Next]_vars

(* A second environment for the claims about the passage of time: the clock *)
(* advances by three days or by one week, and a single identity borrows    *)
(* (the owner holds no collateral token, and funds and drains the reserve). *)

FineTickDays == {3, 7}
SoloCollateral == [a \in Accounts |-> IF a \in {Owner, Protocol} THEN 0 ELSE 2500]

InitFine ==
    /\ userPositions = [u \in Identities |-> ZeroPosition]
    /\ collateralToken = [balanceOf |-> SoloCollateral, allowance |-> InitialAllowance]
    /\ loanToken = [balanceOf |-> InitialLoan, allowance |-> InitialAllowance]
    /\ now = StartTime
    /\ last = Idle(World)
    /\ phase = [u \in Identities |-> "fresh"]
    /\ since = [u \in Identities |-> 0]
    /\ reentrancy = NOT_ENTERED
    /\ frame = NoFrame
    /\ book = NoBook
    /\ userPosition = NotLoaded
    /\ script = NoScript

NextFine ==
    \/ \E u \in Identities, amount \in DepositAmounts : DepositCollateral(u, amount)
    \/ \E u \in Identities, amount \in BorrowAmounts : Borrow(u, amount)
    \/ \E u \in Identities : Repay(u)
    \/ \E u \in Identities : WithdrawCollateral(u)
    \/ \E u \in Identities, amount \in FundAmounts : FundContract(u, amount)
    \/ \E u \in Identities, amount \in FundAmounts : WithdrawExcess(u, amount)
    \/ \E u \in Identities : GetUserData(u)
    \/ \E u \in Approvers, amount \in ApproveAmounts : ApproveCollateral(u, amount)
    \/ \E u \in Approvers, amount \in ApproveAmounts : ApproveLoan(u, amount)
    \/ \E days \in FineTickDays : Tick(days)

SpecFine == InitFine /\ [][NextFine]_vars

----------------------------------------------------------------------------
(* A third environment, for calls made while a call executes: tokens that   *)
(* call back.  Each of the four nonReentrant functions makes one token call *)
(* (transferFrom or transfer).  A token is free to call out before it moves *)
(* the balances, and whoever it calls can call the protocol again.  The     *)
(* functions are therefore taken in two parts, around their token call.     *)

Guarded == {"depositCollateral", "borrow", "repay", "withdrawCollateral"}

ArgumentsOf(op) ==
    CASE op = "depositCollateral" -> DepositAmounts
      [] op = "borrow" -> BorrowAmounts
      [] OTHER -> {0}

\* The modifier: a call that finds the guard ENTERED reverts, any other call runs.
nonReentrantUnguarded(status, w, exec) ==
    exec

nonReentrant(status, w, exec) ==
    IF status = ENTERED THEN Stop(ReentrantCall, w) ELSE exec

\* A function up to its token call: the outcome of its requires, the writes made so
\* far, and `held`, the amount it is about to ask the token to move.
Pause(status, w, held) == [status |-> status, world |-> w, held |-> held]

depositCollateralBegin(w, sender, amount) ==
    IF ~(amount > 0) THEN Pause(InvalidAmount, w, 0)
    ELSE Pause(Ok, w, amount)

borrowBegin(w, sender, amount, ts) ==
    IF ~(amount > 0) THEN Pause(InvalidAmount, w, 0)
    ELSE IF ~(w.userPositions[sender].collateralAmount > 0) THEN Pause(NoCollateral, w, 0)
    ELSE
    LET w1 == [w EXCEPT !.userPositions[sender] = updateInterest(@, ts)]
        position == w1.userPositions[sender]
        failed == borrowChecks(position, amount, balanceOf(w1.loanToken, Protocol))
    IN IF failed # Ok THEN Pause(failed, w1, 0)
       ELSE Pause(Ok, [w1 EXCEPT !.userPositions[sender] =
                          [@ EXCEPT !.loanAmount = @ + amount, !.lastInterestUpdate = ts]],
                  amount)

repayBegin(w, sender, ts) ==
    IF ~(w.userPositions[sender].loanAmount > 0) THEN Pause(NoActiveLoan, w, 0)
    ELSE
    LET w1 == [w EXCEPT !.userPositions[sender] = updateInterest(@, ts)]
    IN Pause(Ok, w1, totalDebt(w1.userPositions[sender]))

withdrawCollateralBegin(w, sender, ts) ==
    IF ~(w.userPositions[sender].collateralAmount > 0) THEN Pause(NoCollateral, w, 0)
    ELSE
    LET w1 == IF w.userPositions[sender].loanAmount > 0
              THEN [w EXCEPT !.userPositions[sender] = updateInterest(@, ts)]
              ELSE w
        position == w1.userPositions[sender]
    IN IF ~debtFree(position) THEN Pause(ActiveDebt, w1, 0)
       ELSE Pause(Ok, [w1 EXCEPT !.userPositions[sender].collateralAmount = 0],
                  position.collateralAmount)

Begin(op, w, sender, amount, ts) ==
    CASE op = "depositCollateral" -> depositCollateralBegin(w, sender, amount)
      [] op = "borrow" -> borrowBegin(w, sender, amount, ts)
      [] op = "repay" -> repayBegin(w, sender, ts)
      [] op = "withdrawCollateral" -> withdrawCollateralBegin(w, sender, ts)

\* A function from its token call on: the token moves `held`, then the rest runs.
depositCollateralEnd(w, sender, held) ==
    LET t == transferFrom(w.collateralToken, sender, Protocol, held)
    IN IF ~t.ok THEN Stop(TransferFailed, w)
       ELSE Stop(Ok, [w EXCEPT
                !.collateralToken = t.token,
                !.userPositions[sender].collateralAmount = @ + held])

borrowEnd(w, sender, held) ==
    LET t == transfer(w.loanToken, Protocol, sender, held)
    IN IF ~t.ok THEN Stop(TransferFailed, w)
       ELSE Stop(Ok, [w EXCEPT !.loanToken = t.token])

repayEnd(w, sender, held) ==
    LET t == transferFrom(w.loanToken, sender, Protocol, held)
    IN IF ~t.ok THEN Stop(TransferFailed, w)
       ELSE Stop(Ok, [w EXCEPT
                !.loanToken = t.token,
                !.userPositions[sender] = resetLoan(@)])

withdrawCollateralEnd(w, sender, held) ==
    LET t == transfer(w.collateralToken, Protocol, sender, held)
    IN IF ~t.ok THEN Stop(TransferFailed, w)
       ELSE Stop(Ok, [w EXCEPT !.collateralToken = t.token])

End(op, w, sender, held) ==
    CASE op = "depositCollateral" -> depositCollateralEnd(w, sender, held)
      [] op = "borrow" -> borrowEnd(w, sender, held)
      [] op = "repay" -> repayEnd(w, sender, held)
      [] op = "withdrawCollateral" -> withdrawCollateralEnd(w, sender, held)

\* A function as one call.
Whole(op, w, sender, amount, ts) ==
    CASE op = "depositCollateral" -> depositCollateral(w, sender, amount)
      [] op = "borrow" -> borrow(w, sender, amount, ts)
      [] op = "repay" -> repay(w, sender, ts)
      [] op = "withdrawCollateral" -> withdrawCollateral(w, sender, ts)

\* A transaction calls one of the four functions: a failed require ends it at once;
\* otherwise the guard is ENTERED and the function stops in its token call.
Enter(op, u, amount) ==
    LET pre == Begin(op, World, u, amount, now)
    IN /\ reentrancy = NOT_ENTERED
       /\ IF pre.status = Ok
          THEN /\ userPositions' = pre.world.userPositions
               /\ reentrancy' = ENTERED
               /\ frame' = [op |-> op, who |-> u, amount |-> amount,
                            held |-> pre.held, before |-> World]
               /\ last' = Idle(pre.world)
          ELSE /\ last' = Call(op, u, amount, pre.status, NoRet)
               /\ UNCHANGED <<userPositions, reentrancy, frame>>
       /\ UNCHANGED <<collateralToken, loanToken, now, phase, since,
                      book, userPosition, script>>

\* Out of the token call, someone calls one of the four functions.
Nested(op, u, amount) ==
    LET exec == nonReentrant(reentrancy, World, Whole(op, World, u, amount, now))
        after == Settle(World, exec)
    IN /\ reentrancy = ENTERED
       /\ userPositions' = after.userPositions
       /\ collateralToken' = after.collateralToken
       /\ loanToken' = after.loanToken
       /\ last' = Call(op, u, amount, exec.status, NoRet)
       /\ UNCHANGED <<now, phase, since, reentrancy, frame, book, userPosition, script>>

\* The token call returns and the function runs to its end; a failed require
\* reverts the whole transaction, to the state before the function was called.
Leave ==
    LET u == frame.who
        exec == End(frame.op, World, u, frame.held)
        after == Settle(frame.before, exec)
        borrowed == frame.op = "borrow" /\ exec.status = Ok
        repaid == frame.op = "repay" /\ exec.status = Ok
    IN /\ reentrancy = ENTERED
       /\ userPositions' = after.userPositions
       /\ collateralToken' = after.collateralToken
       /\ loanToken' = after.loanToken
       /\ last' = [Call(frame.op, u, frame.amount, exec.status, NoRet)
                      EXCEPT !.before = frame.before]
       /\ reentrancy' = NOT_ENTERED
       /\ frame' = NoFrame
       /\ phase' = IF borrowed
                   THEN [phase EXCEPT ![u] = IF @ \in {"fresh", "repaid"} THEN "drawn" ELSE "redrawn"]
                   ELSE IF repaid THEN [phase EXCEPT ![u] = "repaid"] ELSE phase
       /\ since' = IF borrowed /\ phase[u] \in {"fresh", "repaid"}
                   THEN [since EXCEPT ![u] = now]
                   ELSE IF repaid THEN [since EXCEPT ![u] = 0] ELSE since
       /\ book' = Posted(book, frame.op, frame.before, u, frame.amount, now, exec.status)
       /\ UNCHANGED <<now, userPosition, script>>

\* Everything else happens between transactions.
Between(step) ==
    reentrancy = NOT_ENTERED /\ step

NextNested ==
    \/ \E op \in Guarded, u \in Identities : \E amount \in ArgumentsOf(op) : Enter(op, u, amount)
    \/ \E op \in Guarded, u \in Identities : \E amount \in ArgumentsOf(op) : Nested(op, u, amount)
    \/ Leave
    \/ \E u \in Identities, amount \in FundAmounts : Between(FundContract(u, amount))
    \/ \E u \in Approvers, amount \in ApproveAmounts : Between(ApproveCollateral(u, amount))
    \/ \E u \in Approvers, amount \in ApproveAmounts : Between(ApproveLoan(u, amount))
    \/ \E days \in TickDays : Between(Tick(days))

SpecNested == InitFine /\ [][NextNested]_vars

----------------------------------------------------------------------------
(* A fourth environment: the web client (App) of one connected account.  It *)
(* keeps the position it last loaded as decimal strings, and its repay      *)
(* approves the loaded debt + interest before it calls repay().             *)

Account == "user1"

SIGNIFICAND == 53

RECURSIVE BitLength(_)
BitLength(x) == IF x = 0 THEN 0 ELSE 1 + BitLength(x \div 2)

\* parseFloat(ethers.formatEther(x)): the amount as a JavaScript number, which keeps
\* 53 significant bits (round to nearest, ties to even).
parseFloat(x) ==
    IF BitLength(x) <= SIGNIFICAND THEN x
    ELSE LET unit == 2 ^ (BitLength(x) - SIGNIFICAND)
             down == (x \div unit) * unit
             rest == x - down
         IN IF 2 * rest < unit \/ (2 * rest = unit /\ (x \div unit) % 2 = 0)
            THEN down
            ELSE down + unit

\* ethers.parseEther((a + b).toString()): the sum of two numbers is a number again.
parseEther(sum) == parseFloat(sum)

\* loadUserData: getUserData(account) at the time of loading.
loadUserData(w, account, ts) ==
    getUserData(w.userPositions[account], ts)

\* App.repay, first transaction: approve(lendingProtocol, debt + interest as loaded).
repayApproval(loaded) ==
    parseEther(parseFloat(loaded.debt) + parseFloat(loaded.interest))

AppLoadUserData ==
    /\ userPosition' = loadUserData(World, Account, now)
    /\ last' = Idle(World)
    /\ UNCHANGED <<userPositions, collateralToken, loanToken, now, phase, since,
                   reentrancy, frame, book, script>>

\* App.repay: the approve transaction, then repay(); on success the position is
\* loaded again, on failure the client only reports it.
AppRepay ==
    LET approved == [World EXCEPT
                        !.loanToken = approve(@, Account, repayApproval(userPosition))]
        exec == repay(approved, Account, now)
        after == Settle(approved, exec)
    IN /\ userPositions' = after.userPositions
       /\ collateralToken' = after.collateralToken
       /\ loanToken' = after.loanToken
       /\ last' = [Call("App.repay", Account, 0, exec.status, NoRet)
                      EXCEPT !.before = approved]
       /\ phase' = IF exec.status = Ok THEN [phase EXCEPT ![Account] = "repaid"] ELSE phase
       /\ since' = IF exec.status = Ok THEN [since EXCEPT ![Account] = 0] ELSE since
       /\ book' = Posted(book, "repay", approved, Account, 0, now, exec.status)
       /\ userPosition' = IF exec.status = Ok
                          THEN loadUserData(after, Account, now)
                          ELSE userPosition
       /\ UNCHANGED <<now, reentrancy, frame, script>>

NextApp ==
    \/ \E u \in Identities, amount \in DepositAmounts : DepositCollateral(u, amount)
    \/ \E u \in Identities, amount \in BorrowAmounts : Borrow(u, amount)
    \/ \E u \in Identities : WithdrawCollateral(u)
    \/ \E u \in Identities, amount \in FundAmounts : FundContract(u, amount)
    \/ \E u \in Approvers, amount \in ApproveAmounts : ApproveCollateral(u, amount)
    \/ \E days \in FineTickDays : Tick(days)
    \/ AppLoadUserData
    \/ AppRepay

SpecApp == InitFine /\ [][NextApp]_vars

----------------------------------------------------------------------------
(* The scripts.  A script is a sequence of awaited calls to the network;    *)
(* each call answers ("ok") or throws, with a message that contains         *)
(* "replacement transaction underpriced" ("underpriced") or with any other  *)
(* ("other").  `script.log` keeps every call made, with the gas price given *)
(* to it (0 where the script gives none) and its outcome.                   *)

Outcomes == {"ok", "underpriced", "other"}

\* feeData.gasPrice in gwei; 0 is null
GasPrices == {0, 1, 2}
DefaultGasPrice == 10

fundAmount == 100000

Entry(step, gasPrice, outcome) ==
    [step |-> step, gasPrice |-> gasPrice, result |-> outcome]

exit(s, code) == [s EXCEPT !.pc = "exit", !.exit = code]

\* baseGasPrice * 5n
safeGasPriceOf(gasPrice) ==
    (IF gasPrice = 0 THEN DefaultGasPrice ELSE gasPrice) * 5

(* scripts/fund-protocol.ts *)

FundScriptStart ==
    [pc : {"begin"}, fileExists : BOOLEAN, gasPrice : GasPrices,
     balance : {0, fundAmount}, safeGasPrice : {0}, log : {<< >>}, exit : {-1}]

fundRetryableAlways(error) ==
    TRUE

\* error.message.includes("replacement transaction underpriced")
fundRetryable(error) ==
    error = "underpriced"

\* catch (error) of the outer try
fundCaught(s, error) ==
    IF fundRetryable(error) THEN [s EXCEPT !.pc = "retryApprove"] ELSE exit(s, 1)

\* One awaited call of main(): `outcome` is what the network does with it.
fundScript(s, outcome) ==
    LET logged(step, gasPrice) ==
            [s EXCEPT !.log = Append(@, Entry(step, gasPrice, outcome))]
        higherGasPrice == s.safeGasPrice * 2
    IN CASE s.pc = "begin" ->
              IF ~s.fileExists
              THEN exit([s EXCEPT !.log = Append(@, Entry("existsSync", 0, "missing"))], 1)
              ELSE [s EXCEPT !.pc = "connect"]
         [] s.pc = "connect" ->
              IF outcome = "ok"
              THEN [logged("getFeeData", 0) EXCEPT
                       !.pc = "balanceOf", !.safeGasPrice = safeGasPriceOf(s.gasPrice)]
              ELSE exit(logged("getFeeData", 0), 1)
         [] s.pc = "balanceOf" ->
              IF outcome = "ok"
              THEN [logged("balanceOf", 0) EXCEPT
                       !.pc = IF s.balance < fundAmount THEN "mint" ELSE "approve"]
              ELSE fundCaught(logged("balanceOf", 0), outcome)
         [] s.pc = "mint" ->
              IF outcome = "ok"
              THEN [logged("mint", s.safeGasPrice) EXCEPT
                       !.pc = "approve", !.balance = @ + fundAmount]
              ELSE fundCaught(logged("mint", s.safeGasPrice), outcome)
         [] s.pc = "approve" ->
              IF outcome = "ok"
              THEN [logged("approve", s.safeGasPrice) EXCEPT !.pc = "fundContract"]
              ELSE fundCaught(logged("approve", s.safeGasPrice), outcome)
         [] s.pc = "fundContract" ->
              IF outcome = "ok"
              THEN [logged("fundContract", s.safeGasPrice) EXCEPT !.pc = "verify"]
              ELSE fundCaught(logged("fundContract", s.safeGasPrice), outcome)
         [] s.pc = "verify" ->
              IF outcome = "ok"
              THEN exit(logged("balanceOf", 0), 0)
              ELSE fundCaught(logged("balanceOf", 0), outcome)
         [] s.pc = "retryApprove" ->
              IF outcome = "ok"
              THEN [logged("approve", higherGasPrice) EXCEPT !.pc = "retryFund"]
              ELSE exit(logged("approve", higherGasPrice), 1)
         [] s.pc = "retryFund" ->
              IF outcome = "ok"
              THEN exit(logged("fundContract", higherGasPrice), 0)
              ELSE exit(logged("fundContract", higherGasPrice), 1)

Elsewhere ==
    UNCHANGED <<userPositions, collateralToken, loanToken, now, last, phase, since,
                reentrancy, frame, book, userPosition>>

InitFundScript ==
    /\ userPositions = [u \in Identities |-> ZeroPosition]
    /\ collateralToken = [balanceOf |-> InitialCollateral, allowance |-> InitialAllowance]
    /\ loanToken = [balanceOf |-> InitialLoan, allowance |-> InitialAllowance]
    /\ now = StartTime
    /\ last = Idle(World)
    /\ phase = [u \in Identities |-> "fresh"]
    /\ since = [u \in Identities |-> 0]
    /\ reentrancy = NOT_ENTERED
    /\ frame = NoFrame
    /\ book = NoBook
    /\ userPosition = NotLoaded
    /\ script \in FundScriptStart

FundScript(outcome) ==
    /\ script.pc # "exit"
    /\ script' = fundScript(script, outcome)
    /\ Elsewhere

NextFundScript == \E outcome \in Outcomes : FundScript(outcome)

SpecFundScript == InitFundScript /\ [][NextFundScript]_vars

(* The deployment script *)

MaxNonce == 3
NoFile == [written |-> FALSE]

\* The address of a contract created by the deployer's transaction with this nonce.
addressOf(nonce) == [deployer |-> Owner, nonce |-> nonce]

DeployScriptStart ==
    [pc : {"begin"}, initialNonce : 0 .. MaxNonce, gasPrice : GasPrices,
     safegasPrice : {0}, log : {<< >>}, deployed : {<< >>}, file : {NoFile}, exit : {-1}]

\* catch (error) of the outer try: retry when underpriced, else report and go on
deployCaught(s, error) ==
    IF error = "underpriced" THEN [s EXCEPT !.pc = "retryApprove"]
    ELSE [s EXCEPT !.pc = "summary"]

deployRetryCaughtExits(s) ==
    exit(s, 1)

\* catch (retryError): "Funding failed, but contracts are deployed"; the script goes on
deployRetryCaught(s) ==
    [s EXCEPT !.pc = "summary"]

\* One awaited call of main(); the summary and the file both ask getNetwork() first.
deployScript(s, outcome) ==
    LET logged(step, gasPrice) ==
            [s EXCEPT !.log = Append(@, Entry(step, gasPrice, outcome))]
        higherGasPrice == s.safegasPrice * 2
        deploy(contract, nonce, next) ==
            IF outcome = "ok"
            THEN [logged(contract, s.safegasPrice) EXCEPT
                     !.pc = next,
                     !.deployed = Append(@, [contract |-> contract, nonce |-> nonce,
                                             address |-> addressOf(nonce)])]
            ELSE exit(logged(contract, s.safegasPrice), 1)
    IN CASE s.pc = "begin" ->
              IF outcome = "ok"
              THEN [logged("getFeeData", 0) EXCEPT
                       !.pc = "CollateralToken", !.safegasPrice = safeGasPriceOf(s.gasPrice)]
              ELSE exit(logged("getFeeData", 0), 1)
         [] s.pc = "CollateralToken" -> deploy("CollateralToken", s.initialNonce, "LoanToken")
         [] s.pc = "LoanToken" -> deploy("LoanToken", s.initialNonce + 1, "LendingProtocol")
         [] s.pc = "LendingProtocol" -> deploy("LendingProtocol", s.initialNonce + 2, "approve")
         [] s.pc = "approve" ->
              IF outcome = "ok"
              THEN [logged("approve", s.safegasPrice) EXCEPT !.pc = "fundContract"]
              ELSE deployCaught(logged("approve", s.safegasPrice), outcome)
         [] s.pc = "fundContract" ->
              IF outcome = "ok"
              THEN [logged("fundContract", s.safegasPrice) EXCEPT !.pc = "summary"]
              ELSE deployCaught(logged("fundContract", s.safegasPrice), outcome)
         [] s.pc = "retryApprove" ->
              IF outcome = "ok"
              THEN [logged("approve", higherGasPrice) EXCEPT !.pc = "retryFund"]
              ELSE deployRetryCaught(logged("approve", higherGasPrice))
         [] s.pc = "retryFund" ->
              IF outcome = "ok"
              THEN [logged("fundContract", higherGasPrice) EXCEPT !.pc = "summary"]
              ELSE deployRetryCaught(logged("fundContract", higherGasPrice))
         [] s.pc = "summary" ->
              IF outcome # "ok" THEN exit(logged("getNetwork", 0), 1)
              ELSE
              exit([logged("getNetwork", 0) EXCEPT !.file =
                        [written |-> TRUE,
                         collateralToken |-> s.deployed[1].address,
                         loanToken |-> s.deployed[2].address,
                         lendingProtocol |-> s.deployed[3].address]], 0)

InitDeployScript ==
    /\ userPositions = [u \in Identities |-> ZeroPosition]
    /\ collateralToken = [balanceOf |-> InitialCollateral, allowance |-> InitialAllowance]
    /\ loanToken = [balanceOf |-> InitialLoan, allowance |-> InitialAllowance]
    /\ now = StartTime
    /\ last = Idle(World)
    /\ phase = [u \in Identities |-> "fresh"]
    /\ since = [u \in Identities |-> 0]
    /\ reentrancy = NOT_ENTERED
    /\ frame = NoFrame
    /\ book = NoBook
    /\ userPosition = NotLoaded
    /\ script \in DeployScriptStart

DeployScript(outcome) ==
    /\ script.pc # "exit"
    /\ script' = deployScript(script, outcome)
    /\ Elsewhere

NextDeployScript == \E outcome \in Outcomes : DeployScript(outcome)

\* Node runs main() to its end: an awaited call answers or throws, it never hangs.
SpecDeployScript ==
    InitDeployScript /\ [][NextDeployScript]_vars /\ WF_vars(NextDeployScript)

----------------------------------------------------------------------------
(* The claims, stated from the specification's words: the figures of the   *)
(* specification (100, 150, 5, one week) are written out, not taken from   *)
(* the operators above.                                                    *)

PERIOD_LENGTH == 7 * 24 * 60 * 60

Caller == last.who
Before == last.before.userPositions[last.who]
After == userPositions[last.who]
ReserveBefore == last.before.loanToken.balanceOf[Protocol]

\* floor(collateral * 100 / 150)
Bound(collateral) == (collateral * 100) \div 150

\* accrued_interest with the interest of every full period from last_accrual_time to t
AccruedUpTo(position, t) ==
    IF position.loanAmount = 0
    THEN position.accumulatedInterest
    ELSE position.accumulatedInterest
         + (position.loanAmount * 5
              * ((t - position.lastInterestUpdate) \div PERIOD_LENGTH)) \div 100

\* C1: right after a successful borrow the caller's principal + accrued_interest is at
\* most floor(collateral * 100 / 150), and accrued_interest holds the interest of every
\* full period elapsed from last_accrual_time up to now.
C1_BoundAfterBorrow ==
    (last.op = "borrow" /\ last.status = Ok) =>
        /\ After.loanAmount + After.accumulatedInterest <= Bound(After.collateralAmount)
        /\ After.accumulatedInterest = AccruedUpTo(Before, now)

C1_Witness ==
    /\ last.op = "borrow" /\ last.status = Ok
    /\ After.accumulatedInterest > Before.accumulatedInterest

\* C2: in every reachable state the stored principal + accrued_interest of every identity
\* is at most floor(collateral * 100 / 150).
C2_StoredBound ==
    \A u \in Identities :
        userPositions[u].loanAmount + userPositions[u].accumulatedInterest
            <= Bound(userPositions[u].collateralAmount)

\* a call was rejected while the debt accrued to now is above the bound
C2_Witness ==
    /\ last.op \in {"borrow", "withdrawCollateral"} /\ last.status # Ok
    /\ After.loanAmount + AccruedUpTo(After, now) > Bound(After.collateralAmount)

\* C3: withdrawCollateral succeeds only when the caller's principal and the interest
\* accrued up to now are both zero and fails with ActiveDebt otherwise; no step decreases
\* the collateral of a position whose principal is greater than zero.
C3_WithdrawOnlyDebtFree ==
    /\ last.op = "withdrawCollateral" =>
        /\ last.status = Ok => Before.loanAmount = 0 /\ AccruedUpTo(Before, now) = 0
        /\ Before.loanAmount + AccruedUpTo(Before, now) > 0 => last.status = ActiveDebt
    /\ \A u \in Identities :
        last.before.userPositions[u].loanAmount > 0 =>
            userPositions[u].collateralAmount >= last.before.userPositions[u].collateralAmount

C3_Witness ==
    /\ last.op = "withdrawCollateral" /\ last.status = ActiveDebt
    /\ Before.accumulatedInterest = 0
    /\ AccruedUpTo(Before, now) > 0

\* C4: with collateral C > 0, no outstanding debt and a loan reserve of at least the
\* amount, borrow(amount) succeeds if and only if 0 < amount <= floor(C * 100 / 150),
\* and an amount above that maximum is rejected with ExceedsCapacity.
C4_BorrowIffWithinMaximum ==
    (/\ last.op = "borrow"
     /\ Before.collateralAmount > 0
     /\ Before.loanAmount = 0 /\ Before.accumulatedInterest = 0
     /\ ReserveBefore >= last.amount) =>
        /\ last.status = Ok <=>
              (0 < last.amount /\ last.amount <= Bound(Before.collateralAmount))
        /\ last.amount > Bound(Before.collateralAmount) => last.status = ExceedsCapacity

\* collateral 1500 allows exactly 1000
C4_Witness ==
    /\ last.op = "borrow" /\ last.status = Ok
    /\ Before.collateralAmount = 1500 /\ Before.loanAmount = 0
    /\ last.amount = 1000

\* C5: while the principal P of a position comes from a single borrow at time t0,
\* getPosition at time t reports interest floor(P * 5 * floor((t - t0) / PERIOD_LENGTH) / 100).
C5_ProjectedInterest ==
    \A u \in Identities :
        phase[u] = "drawn" =>
            getUserData(userPositions[u], now).interest =
                (userPositions[u].loanAmount * 5
                    * ((now - since[u]) \div PERIOD_LENGTH)) \div 100

\* two full weeks after a single borrow of 1000: 10%
C5_Witness ==
    \E u \in Identities :
        /\ phase[u] = "drawn"
        /\ userPositions[u].loanAmount = 1000
        /\ now - since[u] = 2 * PERIOD_LENGTH
        /\ getUserData(userPositions[u], now).interest = 100

\* C6: a successful repay moves exactly principal + accrued_interest (accrued up to now)
\* of loan asset from the participant to the reserve and leaves principal = 0,
\* accrued_interest = 0, last_accrual_time unset and collateral unchanged; no step
\* lowers a principal other than a successful repay lowering it to zero.
C6_RepayInFull ==
    /\ (last.op = "repay" /\ last.status = Ok) =>
        LET total == Before.loanAmount + AccruedUpTo(Before, now)
        IN /\ loanToken.balanceOf[Caller] = last.before.loanToken.balanceOf[Caller] - total
           /\ loanToken.balanceOf[Protocol] = ReserveBefore + total
           /\ After.loanAmount = 0
           /\ After.accumulatedInterest = 0
           /\ After.lastInterestUpdate = 0
           /\ After.collateralAmount = Before.collateralAmount
    /\ \A u \in Identities :
        userPositions[u].loanAmount < last.before.userPositions[u].loanAmount =>
            /\ userPositions[u].loanAmount = 0
            /\ last.op = "repay" /\ last.status = Ok /\ Caller = u

\* 1000 repaid with the interest of one full week: 1050 moved
C6_Witness ==
    /\ last.op = "repay" /\ last.status = Ok
    /\ Before.loanAmount = 1000
    /\ loanToken.balanceOf[Protocol] = ReserveBefore + 1050

\* C7 as stated: after a successful repay and with no borrow since, every
\* withdrawCollateral of that identity succeeds, transfers the position's whole
\* collateral to the participant and leaves collateral = 0.
C7_WithdrawAfterRepay ==
    (last.op = "withdrawCollateral" /\ phase[Caller] = "repaid") =>
        /\ last.status = Ok
        /\ After.collateralAmount = 0
        /\ collateralToken.balanceOf[Caller] =
              last.before.collateralToken.balanceOf[Caller] + Before.collateralAmount

\* C7 amended: after a successful repay and with no borrow since, every
\* withdrawCollateral of that identity made while the position holds collateral
\* succeeds, transfers the position's whole collateral and leaves collateral = 0.
C7_WithdrawAfterRepayWithCollateral ==
    (/\ last.op = "withdrawCollateral" /\ phase[Caller] = "repaid"
     /\ Before.collateralAmount > 0) =>
        /\ last.status = Ok
        /\ After.collateralAmount = 0
        /\ collateralToken.balanceOf[Caller] =
              last.before.collateralToken.balanceOf[Caller] + Before.collateralAmount
        /\ collateralToken.balanceOf[Protocol] =
              last.before.collateralToken.balanceOf[Protocol] - Before.collateralAmount

C7_Witness ==
    /\ last.op = "withdrawCollateral" /\ phase[Caller] = "repaid"
    /\ last.status = Ok
    /\ Before.collateralAmount = 1500
    /\ now >= StartTime + PERIOD_LENGTH

\* C8: a borrow rejected with ExceedsCapacity or InsufficientReserve and a
\* withdrawCollateral rejected with ActiveDebt leave every position and both asset
\* pools as before the call: the accrual applied before the failing check is not kept.
C8_RejectionKeepsState ==
    (\/ last.op = "borrow" /\ last.status \in {ExceedsCapacity, InsufficientReserve}
     \/ last.op = "withdrawCollateral" /\ last.status = ActiveDebt) =>
        World = last.before

\* rejected after an accrual that would have added interest
C8_Witness ==
    /\ last.op = "borrow" /\ last.status \in {ExceedsCapacity, InsufficientReserve}
    /\ AccruedUpTo(Before, now) > Before.accumulatedInterest

\* C9: when the value transfer of deposit or repay fails (balance or allowance below
\* the amount), the call fails and the ledger is as before: no collateral is added, and
\* principal, accrued_interest, last_accrual_time and the reserve keep their values.
C9_FailedTransferKeepsState ==
    /\ (/\ last.op = "depositCollateral" /\ last.amount > 0
        /\ \/ last.before.collateralToken.allowance[Caller] < last.amount
           \/ last.before.collateralToken.balanceOf[Caller] < last.amount) =>
            last.status = TransferFailed /\ World = last.before
    /\ (/\ last.op = "repay" /\ Before.loanAmount > 0
        /\ LET total == Before.loanAmount + AccruedUpTo(Before, now)
           IN \/ last.before.loanToken.allowance[Caller] < total
              \/ last.before.loanToken.balanceOf[Caller] < total) =>
            last.status = TransferFailed /\ World = last.before
    /\ (last.op \in {"depositCollateral", "repay"} /\ last.status = TransferFailed) =>
            World = last.before

\* a repay that fails for lack of balance, after an accrual that would have added interest
C9_Witness ==
    /\ last.op = "repay" /\ last.status = TransferFailed
    /\ last.before.loanToken.allowance[Caller] = MaxUint
    /\ AccruedUpTo(Before, now) > Before.accumulatedInterest

\* C10: borrow reports the first failing check in the order InvalidAmount, NoCollateral,
\* ExceedsCapacity (debt accrued to now + amount > floor(collateral * 100 / 150)),
\* InsufficientReserve, and succeeds exactly when none of the four fails.
C10_BorrowCheckOrder ==
    last.op = "borrow" =>
        last.status =
            IF last.amount <= 0 THEN InvalidAmount
            ELSE IF Before.collateralAmount = 0 THEN NoCollateral
            ELSE IF Before.loanAmount + AccruedUpTo(Before, now) + last.amount
                        > Bound(Before.collateralAmount) THEN ExceedsCapacity
            ELSE IF ReserveBefore < last.amount THEN InsufficientReserve
            ELSE Ok

\* capacity and reserve both fail: ExceedsCapacity is reported
C10_Witness ==
    /\ last.op = "borrow" /\ last.status = ExceedsCapacity
    /\ Before.loanAmount > 0
    /\ ReserveBefore < last.amount

LedgerOps == {"depositCollateral", "borrow", "repay", "withdrawCollateral"}

\* C11: repay fails with NoActiveLoan exactly when the caller's principal is 0, and
\* withdrawCollateral fails with NoCollateral exactly when the caller's collateral is 0;
\* in both cases no state changes.
C11_MissingLoanOrCollateral ==
    /\ last.op = "repay" =>
        /\ last.status = NoActiveLoan <=> Before.loanAmount = 0
        /\ last.status = NoActiveLoan => World = last.before
    /\ last.op = "withdrawCollateral" =>
        /\ last.status = NoCollateral <=> Before.collateralAmount = 0
        /\ last.status = NoCollateral => World = last.before

\* withdrawCollateral of an empty position that once held a loan
C11_Witness ==
    /\ last.op = "withdrawCollateral" /\ last.status = NoCollateral
    /\ phase[Caller] = "repaid"

\* C12: the loan reserve is never negative; a borrow or withdrawExcess whose amount
\* exceeds the reserve when it executes is rejected and changes no position and no
\* loan balance, and a successful borrow takes its amount out of a reserve that held it.
C12_ReserveNeverOverdrawn ==
    /\ loanToken.balanceOf[Protocol] >= 0
    /\ (last.op \in {"borrow", "withdrawExcess"} /\ last.amount > ReserveBefore) =>
        /\ last.status # Ok
        /\ userPositions = last.before.userPositions
        /\ loanToken = last.before.loanToken
    /\ (last.op \in {"borrow", "withdrawExcess"} /\ last.status = Ok) =>
        /\ last.amount <= ReserveBefore
        /\ loanToken.balanceOf[Protocol] = ReserveBefore - last.amount

\* a borrow rejected because the other identity's borrows drained the reserve
C12_Witness ==
    /\ last.op = "borrow" /\ last.status = InsufficientReserve
    /\ ReserveBefore > 0
    /\ \E u \in Identities \ {Caller} : userPositions[u].loanAmount > 0

\* C13: fund and withdrawExcess called by any identity other than the administrative
\* one are rejected as Unauthorized and change nothing; the loan reserve changes
\* through them only when the administrative identity calls.
C13_OwnerOnly ==
    last.op \in {"fundContract", "withdrawExcess"} =>
        /\ Caller # Owner => last.status = Unauthorized /\ World = last.before
        /\ loanToken.balanceOf[Protocol] # ReserveBefore => Caller = Owner

\* a withdrawExcess the reserve could have paid, called by a non-owner
C13_Witness ==
    /\ last.op = "withdrawExcess" /\ Caller # Owner
    /\ ReserveBefore >= last.amount
    /\ last.status = Unauthorized

\* C14: a deposit, borrow, repay or withdrawCollateral by identity A, successful or
\* not, leaves the position record of every other identity B unchanged.
C14_OtherPositionsUntouched ==
    last.op \in LedgerOps =>
        \A u \in Identities \ {Caller} :
            userPositions[u] = last.before.userPositions[u]

\* a successful borrow while the other identity holds collateral and a loan
C14_Witness ==
    /\ last.op = "borrow" /\ last.status = Ok
    /\ \E u \in Identities \ {Caller} :
        userPositions[u].collateralAmount > 0 /\ userPositions[u].loanAmount > 0

\* C15: getPosition is read-only: it changes no stored position field and no balance.
C15_GetPositionReadOnly ==
    last.op = "getUserData" => World = last.before

\* a getPosition that reports more interest than is stored
C15_Witness ==
    /\ last.op = "getUserData"
    /\ last.ret.interest > After.accumulatedInterest

ProbeDays == {0, 3, 7, 10, 14}

\* C16: for every reachable position and every time at or after now, the interest
\* getPosition returns equals the accrued_interest that accrue would store at that
\* time, and getPosition returns the stored collateral and principal unchanged.
C16_ProjectionAgreesWithAccrual ==
    \A u \in Identities : \A d \in ProbeDays :
        LET p == userPositions[u]
            got == getUserData(p, now + d * DAY)
        IN /\ got.interest = updateInterest(p, now + d * DAY).accumulatedInterest
           /\ got.collateral = p.collateralAmount
           /\ got.debt = p.loanAmount

\* a position with stored interest and with interest still to be accrued
C16_Witness ==
    \E u \in Identities :
        /\ userPositions[u].accumulatedInterest > 0
        /\ getUserData(userPositions[u], now).interest > userPositions[u].accumulatedInterest

\* a successful deposit by a debt-free identity, followed at once by its withdrawCollateral
C17_DepositThenWithdraw ==
    /\ last.op = "depositCollateral" /\ last.status = Ok
    /\ After.loanAmount = 0 /\ After.accumulatedInterest = 0
    /\ last'.op = "withdrawCollateral" /\ last'.who = last.who

\* C17 as stated: with zero debt and any pre-deposit collateral, deposit(X) followed by
\* withdraw restores collateral to its pre-deposit value exactly.
C17_RoundTrip ==
    [][C17_DepositThenWithdraw =>
        /\ last'.status = Ok
        /\ userPositions'[last.who].collateralAmount = Before.collateralAmount]_vars

\* C17 amended: with zero debt, deposit(X) followed by withdraw succeeds, returns the
\* whole collateral (pre-deposit value plus X) to the participant and leaves
\* collateral = 0: the pre-deposit value is restored exactly when that value was 0.
C17_RoundTripFromEmpty ==
    [][C17_DepositThenWithdraw =>
        /\ last'.status = Ok
        /\ userPositions'[last.who].collateralAmount = 0
        /\ (userPositions'[last.who].collateralAmount = Before.collateralAmount)
              <=> (Before.collateralAmount = 0)
        /\ collateralToken'.balanceOf[last.who] =
              last.before.collateralToken.balanceOf[last.who] + Before.collateralAmount]_vars

\* a withdrawCollateral that returned what a never-indebted identity had deposited
C17_Witness ==
    /\ last.op = "withdrawCollateral" /\ last.status = Ok
    /\ phase[Caller] = "fresh"
    /\ Before.collateralAmount = 1500
    /\ After.collateralAmount = 0
    /\ collateralToken.balanceOf[Caller] = InitialCollateral[Caller]

\* The last call made once more at time t, on the state it left.
Again(t) ==
    Settle(World,
        CASE last.op = "depositCollateral" -> depositCollateral(World, Caller, last.amount)
          [] last.op = "borrow" -> borrow(World, Caller, last.amount, t)
          [] last.op = "repay" -> repay(World, Caller, t)
          [] last.op = "withdrawCollateral" -> withdrawCollateral(World, Caller, t)
          [] OTHER -> Stop(Ok, World))

SamePeriodDays == {0, 3, 6}

\* C18: when no full period has elapsed since last_accrual_time, a second getPosition
\* reports the same interest as the first, and a second call of the operation just made
\* leaves the caller's accrued_interest as the first call left it.
C18_SamePeriodSameInterest ==
    \A u \in Identities : \A d \in SamePeriodDays :
        LET p == userPositions[u]
            t == now + d * DAY
        IN (p.loanAmount = 0 \/ (t - p.lastInterestUpdate) \div PERIOD_LENGTH = 0) =>
            /\ getUserData(p, t).interest = getUserData(p, now).interest
            /\ getUserData(p, t).interest = p.accumulatedInterest
            /\ (last.op \in LedgerOps /\ Caller = u) =>
                  Again(t).userPositions[u].accumulatedInterest = p.accumulatedInterest

\* a call made three days after an accrual that stored interest
C18_Witness ==
    /\ last.op \in LedgerOps
    /\ After.accumulatedInterest > 0
    /\ now - After.lastInterestUpdate = 3 * DAY

\* C19: while a position's principal stays the same and unpaid, its stored
\* accrued_interest and the interest getPosition reports never decrease from one
\* state to the next, as time advances and calls are made.
C19_MonotonicAccrual ==
    [][\A u \in Identities :
        (userPositions[u].loanAmount > 0
         /\ userPositions'[u].loanAmount = userPositions[u].loanAmount) =>
            /\ userPositions'[u].accumulatedInterest >= userPositions[u].accumulatedInterest
            /\ getUserData(userPositions'[u], now').interest
                  >= getUserData(userPositions[u], now).interest]_vars

\* 667 borrowed once and left unpaid for 13 days: one period of interest
C19_Witness ==
    \E u \in Identities :
        /\ phase[u] = "drawn"
        /\ userPositions[u].loanAmount = 667
        /\ now - since[u] = 13 * DAY
        /\ getUserData(userPositions[u], now).interest = 33

\* C20: deposit(amount) with amount <= 0 fails with InvalidAmount; a successful deposit
\* sets collateral to its previous value plus amount and leaves principal,
\* accrued_interest and last_accrual_time unchanged, with or without debt.
C20_DepositAddsCollateral ==
    last.op = "depositCollateral" =>
        /\ last.amount <= 0 => last.status = InvalidAmount /\ World = last.before
        /\ last.status = Ok =>
            /\ last.amount > 0
            /\ After.collateralAmount = Before.collateralAmount + last.amount
            /\ After.loanAmount = Before.loanAmount
            /\ After.accumulatedInterest = Before.accumulatedInterest
            /\ After.lastInterestUpdate = Before.lastInterestUpdate

\* a second deposit into a position whose debt has a full period of interest pending
C20_Witness ==
    /\ last.op = "depositCollateral" /\ last.status = Ok
    /\ Before.collateralAmount > 0
    /\ Before.loanAmount > 0
    /\ getUserData(Before, now).interest > Before.accumulatedInterest

\* C21: in every reachable state a position with principal 0 has accrued_interest 0 and
\* last_accrual_time unset: zero principal with leftover interest is never reached.
C21_NoInterestWithoutPrincipal ==
    \A u \in Identities :
        userPositions[u].loanAmount = 0 =>
            /\ userPositions[u].accumulatedInterest = 0
            /\ userPositions[u].lastInterestUpdate = 0

\* a repay that charged interest of full periods has just reset the position
C21_Witness ==
    /\ last.op = "repay" /\ last.status = Ok
    /\ AccruedUpTo(Before, now) > 0
    /\ After.loanAmount = 0

\* C24 as stated: withdrawCollateral is rejected in the state with principal > 0 and
\* in no other reachable state of a position.
C24_RejectedOnlyWithPrincipal ==
    last.op = "withdrawCollateral" =>
        (last.status # Ok <=> Before.loanAmount > 0)

\* C24 amended: withdrawCollateral is rejected in exactly two position states, with
\* principal > 0 (as ActiveDebt) and with collateral = 0 (as NoCollateral); in the
\* remaining state, collateral > 0 and principal = 0, it succeeds.
C24_RejectedWithPrincipalOrEmpty ==
    last.op = "withdrawCollateral" =>
        /\ last.status # Ok <=> (Before.loanAmount > 0 \/ Before.collateralAmount = 0)
        /\ Before.collateralAmount = 0 => last.status = NoCollateral
        /\ Before.loanAmount > 0 => last.status = ActiveDebt
        /\ (Before.collateralAmount > 0 /\ Before.loanAmount = 0) => last.status = Ok

\* withdrawCollateral on a position that never held anything
C24_Witness ==
    /\ last.op = "withdrawCollateral" /\ last.status = NoCollateral
    /\ phase[Caller] = "fresh"
    /\ Before = ZeroPosition

\* C25: in every reachable state a position whose collateral is 0 has all four fields
\* at their zero initial values: no debt without collateral, and an unwound position
\* equals a never-used one.
C25_EmptyIsBaseline ==
    \A u \in Identities :
        userPositions[u].collateralAmount = 0 =>
            /\ userPositions[u].loanAmount = 0
            /\ userPositions[u].accumulatedInterest = 0
            /\ userPositions[u].lastInterestUpdate = 0

\* a position that borrowed, repaid and withdrew its collateral
C25_Witness ==
    \E u \in Identities :
        /\ phase[u] = "repaid"
        /\ userPositions[u].collateralAmount = 0
        /\ collateralToken.balanceOf[u] = InitialCollateral[u]

\* C26: the passage of time alone changes no stored field of any position, and a
\* position's stored accrued_interest and last_accrual_time change only in a successful
\* borrow or a successful repay of that identity.
C26_LazyAccrual ==
    [][\A u \in Identities :
        /\ now' # now => userPositions'[u] = userPositions[u]
        /\ (\/ userPositions'[u].accumulatedInterest # userPositions[u].accumulatedInterest
            \/ userPositions'[u].lastInterestUpdate # userPositions[u].lastInterestUpdate)
           => /\ last'.op \in {"borrow", "repay"}
              /\ last'.status = Ok
              /\ last'.who = u]_vars

\* a withdrawCollateral rejected for debt, whose accrual of a full period was not kept
C26_Witness ==
    /\ last.op = "withdrawCollateral" /\ last.status = ActiveDebt
    /\ AccruedUpTo(After, now) > After.accumulatedInterest

\* C27: in every reachable state a position with principal > 0 has last_accrual_time
\* set (not 0) and not later than the current time.
C27_AccrualTimeSet ==
    \A u \in Identities :
        userPositions[u].loanAmount > 0 =>
            /\ userPositions[u].lastInterestUpdate > 0
            /\ userPositions[u].lastInterestUpdate <= now

\* a debt whose accrual time is that of a later borrow and already lies a week back
C27_Witness ==
    \E u \in Identities :
        /\ phase[u] = "redrawn"
        /\ userPositions[u].lastInterestUpdate > since[u]
        /\ now - userPositions[u].lastInterestUpdate >= PERIOD_LENGTH

\* C28: a successful borrow(amount) at time now takes exactly amount out of the loan
\* reserve, credits the participant exactly amount, adds exactly amount to principal,
\* sets last_accrual_time = now also when no full period had elapsed, adds to
\* accrued_interest only the interest of the full periods elapsed before the draw, and
\* leaves collateral unchanged.
C28_BorrowEffect ==
    (last.op = "borrow" /\ last.status = Ok) =>
        /\ loanToken.balanceOf[Protocol] = ReserveBefore - last.amount
        /\ loanToken.balanceOf[Caller] = last.before.loanToken.balanceOf[Caller] + last.amount
        /\ After.loanAmount = Before.loanAmount + last.amount
        /\ After.lastInterestUpdate = now
        /\ After.accumulatedInterest = AccruedUpTo(Before, now)
        /\ After.collateralAmount = Before.collateralAmount
        /\ collateralToken = last.before.collateralToken

\* a second draw three days after the first
C28_Witness ==
    /\ last.op = "borrow" /\ last.status = Ok
    /\ Before.loanAmount > 0
    /\ now - Before.lastInterestUpdate = 3 * DAY

\* C29: fund and withdrawExcess by the administrative identity leave every position
\* record, the collateral-asset holdings and the other identities' loan balances
\* unchanged, and withdrawExcess of more than the current loan reserve is rejected.
C29_OwnerOpsTouchReserveOnly ==
    (last.op \in {"fundContract", "withdrawExcess"} /\ Caller = Owner) =>
        /\ userPositions = last.before.userPositions
        /\ collateralToken = last.before.collateralToken
        /\ \A u \in Identities \ {Owner} :
              loanToken.balanceOf[u] = last.before.loanToken.balanceOf[u]
        /\ (last.op = "withdrawExcess" /\ last.amount > ReserveBefore) =>
              last.status # Ok /\ World = last.before

\* the owner funds the reserve while the ledger holds a position's collateral
C29_Witness ==
    /\ last.op = "fundContract" /\ Caller = Owner /\ last.status = Ok
    /\ collateralToken.balanceOf[Protocol] > 0
    /\ \E u \in Identities : userPositions[u].collateralAmount > 0

\* C30: every accrual adds exactly floor(principal * 5 * elapsed_periods / 100), computed
\* from the principal alone, whatever accrued_interest is already stored: for every
\* reachable position and probed time, and in every successful borrow and repay.
C30_NonCompounding ==
    /\ \A u \in Identities : \A d \in ProbeDays :
        LET p == userPositions[u]
            t == now + d * DAY
        IN p.loanAmount > 0 =>
            updateInterest(p, t).accumulatedInterest - p.accumulatedInterest
                = (p.loanAmount * 5 * ((t - p.lastInterestUpdate) \div PERIOD_LENGTH)) \div 100
    /\ (last.op = "borrow" /\ last.status = Ok /\ Before.loanAmount > 0) =>
        After.accumulatedInterest - Before.accumulatedInterest
            = (Before.loanAmount * 5
                 * ((now - Before.lastInterestUpdate) \div PERIOD_LENGTH)) \div 100

\* a position that stores the interest of one accrual while a second one is due
C30_Witness ==
    \E u \in Identities :
        /\ userPositions[u].accumulatedInterest = 33
        /\ userPositions[u].loanAmount = 1334
        /\ updateInterest(userPositions[u], now).accumulatedInterest = 99

\* the days after a call at which the debt is looked at
LaterDays == 0 .. 14

\* C23: unpaid principal accrues interest once for every full period it is outstanding.
\* Stated for the interval that starts at a position's accrual time t0, with principal
\* P > 0 and stored interest I0, and contains a further successful borrow: principal
\* is at least P throughout, so at every later time t the interest getPosition reports
\* (and repay charges) exceeds I0 by at least floor(P * 5 * k / 100), where k is the
\* number of full periods from t0 to t.
C23_InterestForEveryFullPeriod ==
    (last.op = "borrow" /\ last.status = Ok /\ Before.loanAmount > 0) =>
        \A d \in LaterDays :
            LET t == now + d * DAY
                k == (t - Before.lastInterestUpdate) \div PERIOD_LENGTH
            IN /\ getUserData(After, t).interest - Before.accumulatedInterest
                    >= (Before.loanAmount * 5 * k) \div 100
               /\ totalDebt(updateInterest(After, t)) - After.loanAmount
                    - Before.accumulatedInterest
                    >= (Before.loanAmount * 5 * k) \div 100

\* The last call, run alone as one transaction on the state before it.
Alone == Whole(last.op, last.before, Caller, last.amount, now)

\* C22: while one of deposit, borrow, repay or withdrawCollateral executes, its token
\* call included, a nested call of any of the four is rejected and changes nothing;
\* so the executing call ends as it would have run alone, no other read-modify-write
\* of a position in between.
C22_NoNestedCall ==
    /\ (reentrancy = ENTERED /\ last.op \in LedgerOps) =>
        /\ last.status = ReentrantCall
        /\ World = last.before
    /\ (reentrancy = NOT_ENTERED /\ last.op \in LedgerOps) =>
        /\ last.status = Alone.status
        /\ World = Settle(last.before, Alone)

\* withdrawCollateral called again out of withdrawCollateral's own token transfer
C22_Witness ==
    /\ reentrancy = ENTERED
    /\ frame.op = "withdrawCollateral"
    /\ last.op = "withdrawCollateral" /\ last.who = frame.who
    /\ last.status = ReentrantCall
    /\ frame.held > 0

\* what the last call left in the log
Logged == Events(last.op, last.before, Caller, last.amount, now)

\* C31: every successful deposit, borrow, repay and withdraw emits exactly one event
\* with the caller's identity and the amount moved, a failed call emits none, and the
\* repay event reports principal and interest separately, their sum being the amount
\* transferred to the reserve.
C31_OneEventPerSuccess ==
    last.op \in LedgerOps =>
        /\ last.status # Ok => Logged = << >>
        /\ last.status = Ok =>
            /\ Len(Logged) = 1
            /\ Logged[1].user = Caller
            /\ last.op = "depositCollateral" =>
                  /\ Logged[1].name = "CollateralDeposited"
                  /\ Logged[1].amount = collateralToken.balanceOf[Protocol]
                        - last.before.collateralToken.balanceOf[Protocol]
            /\ last.op = "borrow" =>
                  /\ Logged[1].name = "LoanBorrowed"
                  /\ Logged[1].amount = ReserveBefore - loanToken.balanceOf[Protocol]
            /\ last.op = "withdrawCollateral" =>
                  /\ Logged[1].name = "CollateralWithdrawn"
                  /\ Logged[1].amount = collateralToken.balanceOf[Caller]
                        - last.before.collateralToken.balanceOf[Caller]
            /\ last.op = "repay" =>
                  /\ Logged[1].name = "LoanRepaid"
                  /\ Logged[1].amount = Before.loanAmount
                  /\ Logged[1].interest = AccruedUpTo(Before, now)
                  /\ Logged[1].amount + Logged[1].interest
                        = loanToken.balanceOf[Protocol] - ReserveBefore

\* a repay of 667 with the interest of one period: 700 moved to the reserve
C31_Witness ==
    /\ last.op = "repay" /\ last.status = Ok
    /\ Logged[1].interest = 33
    /\ loanToken.balanceOf[Protocol] - ReserveBefore = 700

RECURSIVE SumOver(_, _)
SumOver(f, S) ==
    IF S = {} THEN 0
    ELSE LET u == CHOOSE x \in S : TRUE
         IN f[u] + SumOver(f, S \ {u})

TotalCollateral == SumOver([u \in Identities |-> userPositions[u].collateralAmount], Identities)
TotalPrincipal == SumOver([u \in Identities |-> userPositions[u].loanAmount], Identities)

\* C32: in every reachable state the ledger's collateral-asset holdings equal the sum
\* of collateral over all positions; no borrow, repay, fund or withdrawExcess changes
\* them, and the transfer of a permitted withdrawCollateral never fails.
C32_CollateralSolvency ==
    /\ collateralToken.balanceOf[Protocol] = TotalCollateral
    /\ last.op \in {"borrow", "repay", "fundContract", "withdrawExcess"} =>
          collateralToken.balanceOf[Protocol]
              = last.before.collateralToken.balanceOf[Protocol]
    /\ last.op = "withdrawCollateral" => last.status # TransferFailed

\* one identity withdraws while the ledger still holds the other's collateral
C32_Witness ==
    /\ last.op = "withdrawCollateral" /\ last.status = Ok
    /\ Before.collateralAmount > 0
    /\ TotalCollateral > 0

\* C33: in every reachable state the loan reserve plus the outstanding principal of
\* all positions equals the owner's net funding (funded minus withdrawExcess) plus all
\* interest ever repaid; that is, the reserve equals funded minus withdrawn minus
\* borrowed plus repaid.
C33_LoanConservation ==
    loanToken.balanceOf[Protocol] + TotalPrincipal = book.funding + book.interest

\* interest has been repaid and a loan is outstanding
C33_Witness ==
    /\ book.interest > 0
    /\ book.funding > 0
    /\ TotalPrincipal > 0

\* C34: for a position whose first borrow since its last repay (or creation) happened
\* at t1 and whose principal is now P, the interest getPosition reports at any time t
\* from now on is at most floor(P * 5 * floor((t - t1) / PERIOD_LENGTH) / 100).
C34_AtMostSimpleInterest ==
    \A u \in Identities : \A d \in ProbeDays :
        LET p == userPositions[u]
            t == now + d * DAY
        IN phase[u] \in {"drawn", "redrawn"} =>
            getUserData(p, t).interest
                <= (p.loanAmount * 5 * ((t - since[u]) \div PERIOD_LENGTH)) \div 100

\* two draws a week apart: a week later 99 is reported, the bound is 133
C34_Witness ==
    \E u \in Identities :
        /\ phase[u] = "redrawn"
        /\ now - since[u] = 2 * PERIOD_LENGTH
        /\ getUserData(userPositions[u], now).interest = 99
        /\ (userPositions[u].loanAmount * 5 * 2) \div 100 = 133

\* what repay() charges the caller of the last call
Charged == totalDebt(updateInterest(Before, now))

\* C35: in the client's repay flow the allowance approved before repay (loaded debt +
\* loaded interest) is at least the total debt the contract charges when repay
\* executes, so a repay started from the client for the loan it has loaded, by a
\* participant holding enough loan tokens, does not fail, whatever time has elapsed
\* since the position was loaded.
C35_ClientRepayApprovesEnough ==
    (/\ last.op = "App.repay"
     /\ Before.loanAmount > 0
     /\ userPosition.debt = Before.loanAmount
     /\ last.before.loanToken.balanceOf[Caller] >= Charged) =>
        /\ last.before.loanToken.allowance[Caller] >= Charged
        /\ last.status = Ok

\* the places in the script's log of the calls of one kind, and of the calls that threw
Calls(step) == {i \in DOMAIN script.log : script.log[i].step = step}
Thrown == {i \in DOMAIN script.log : script.log[i].result # "ok"}

\* C36: the funding script makes the approve-then-fundContract sequence at most twice;
\* a call is made after one that threw only when that was the first to throw and threw
\* 'replacement transaction underpriced', and it is an approve at twice the first gas
\* price, as is the fundContract after it; the script ends with exit code 0 when its
\* last call answered and with 1 when it threw (or when the addresses file is missing).
C36_AtMostOneRetry ==
    /\ Cardinality(Calls("approve")) <= 2
    /\ Cardinality(Calls("fundContract")) <= 2
    /\ Cardinality(Thrown) <= 2
    /\ \A k \in Thrown :
        k < Len(script.log) =>
            /\ script.log[k].result = "underpriced"
            /\ \A m \in 1 .. (k - 1) : script.log[m].result = "ok"
            /\ script.log[k + 1].step = "approve"
            /\ \A j \in (k + 1) .. Len(script.log) :
                  /\ script.log[j].step \in {"approve", "fundContract"}
                  /\ script.log[j].gasPrice = 2 * script.safeGasPrice
    /\ \A i \in DOMAIN script.log :
        (Thrown \cap (1 .. (i - 1)) = {}) =>
            script.log[i].gasPrice \in {0, script.safeGasPrice}
    /\ script.pc = "exit" =>
        /\ script.log # << >>
        /\ script.exit = IF script.log[Len(script.log)].result = "ok" THEN 0 ELSE 1
        /\ script.exit = 0 =>
              \E i \in Calls("fundContract") : script.log[i].result = "ok"

\* the first fundContract was underpriced, the retry at twice the price went through
C36_Witness ==
    /\ script.pc = "exit" /\ script.exit = 0
    /\ Cardinality(Calls("approve")) = 2
    /\ \E k \in Calls("fundContract") : script.log[k].result = "underpriced"
    /\ script.log[Len(script.log)].gasPrice = 2 * script.safeGasPrice
    /\ script.safeGasPrice = 50

AllDeployed == Len(script.deployed) = 3

AddressesWritten ==
    /\ script.file.written
    /\ script.file.collateralToken = addressOf(script.initialNonce)
    /\ script.file.loanToken = addressOf(script.initialNonce + 1)
    /\ script.file.lendingProtocol = addressOf(script.initialNonce + 2)

NetworkUnknown ==
    \E i \in Calls("getNetwork") : script.log[i].result # "ok"

InOrder ==
    \A i \in DOMAIN script.deployed :
        /\ script.deployed[i].contract
              = <<"CollateralToken", "LoanToken", "LendingProtocol">>[i]
        /\ script.deployed[i].nonce = script.initialNonce + i - 1

====
